---- MODULE Spec2Model ----
(***************************************************************************)
(* Model of parse_mrp_data (src/lib.rs): the decoder of a Media Redundancy *)
(* Protocol payload, a 2-byte version followed by Type-Length-Value        *)
(* records.  One run of the state machine is one call of parse_mrp_data on *)
(* the payload chosen in Init; pc is the position of the call.             *)
(***************************************************************************)
EXTENDS Integers, Sequences, FiniteSets, TLC

VARIABLES data, pc, version, offset, tlv_headers, ret

vars == <<data, pc, version, offset, tlv_headers, ret>>

----------------------------------------------------------------------------
(* Bounds of the payloads the runs are started on.                         *)

\* the largest number of TLV records a generated payload is built from
MaxRecords == 2
\* the largest number of bytes cut from the end of a generated payload
MaxCut == 2

\* wire type bytes: End, Common, Test, Option and one unknown type
Kinds == {0, 1, 2, 127, 5}
\* wire length bytes, around the fixed layouts of 6 and 18 bytes
Lengths == {0, 5, 6, 17, 18, 19}
\* filling patterns; pattern 0 fills bodies with zero bytes, which read as
\* End records wherever the decoder would take a body for a record
Seeds == {0, 3}

Fill(seed, j) == (seed * (7 * j + 1)) % 256

FillSeq(seed, n) == [j \in 1..n |-> Fill(seed, j + 1)]

RECURSIVE Build(_, _)
Build(seed, shape) ==
    IF shape = <<>> THEN <<Fill(seed, 0), Fill(seed, 1)>>
    ELSE LET last == shape[Len(shape)]
         IN  Build(seed, SubSeq(shape, 1, Len(shape) - 1))
                 \o <<last[1], last[2]>>
                 \o FillSeq(seed + Len(shape), last[2])

Shapes == UNION {[1..n -> Kinds \X Lengths] : n \in 0..MaxRecords}

\* the payload of test_parse_mrp_data: Test, Common, Option and End records
TestPayload ==
    <<0, 1, 2, 18, 160, 0, 0, 14, 140, 224, 47, 34,
      0, 0, 0, 0, 0, 1, 25, 250, 63, 212, 1, 18,
      5, 126, 195, 214, 135, 254, 120, 158, 3, 161, 172, 219,
      229, 191, 203, 188, 39, 182, 127, 6, 8, 0, 6, 0,
      0, 0, 0, 0>>

Generated ==
    {SubSeq(Build(seed, shape), 1, Len(Build(seed, shape)) - cut) :
        <<seed, shape, cut>> \in
            {t \in Seeds \X Shapes \X (0..MaxCut) : t[3] <= 2 + 2 * Len(t[2])}}

Payloads == Generated \cup {TestPayload}

----------------------------------------------------------------------------
(* Rust slices and indexing: an index or a range outside the slice panics. *)

\* data[i], 0-based, is in bounds
IndexOk(s, i) == 0 <= i /\ i < Len(s)
\* &s[a..b], 0-based and half-open, is in bounds
SliceOk(s, a, b) == a <= b /\ b <= Len(s)
Slice(s, a, b) == SubSeq(s, a + 1, b)
At(s, i) == s[i + 1]

(* Field decoders *)

parse_u16_le(d) == At(d, 1) * 256 + At(d, 0)
parse_u16(d) == At(d, 0) * 256 + At(d, 1)

\* u32::from_be_bytes; a u32 is held as its two 16-bit halves <<high, low>>,
\* value high * 65536 + low, since the full value exceeds TLC's integers
parse_u32(d) ==
    <<At(d, 0) * 256 + At(d, 1), At(d, 2) * 256 + At(d, 3)>>

\* copy_from_slice panics unless the source holds exactly 6 bytes
parse_mac_address_ok(d) == Len(d) = 6
parse_mac_address(d) == [j \in 1..6 |-> d[j]]

\* Uuid::from_slice: Ok for exactly 16 bytes, an error otherwise
Uuid_from_slice(d) ==
    IF Len(d) = 16 THEN [ok |-> TRUE, uuid |-> d] ELSE [ok |-> FALSE, uuid |-> <<>>]

----------------------------------------------------------------------------
(* Values returned to the caller: Option<MRPData>.                         *)

Pending == [tag |-> "Pending", version |-> 0, tlv_headers |-> <<>>]
NoneValue == [tag |-> "None", version |-> 0, tlv_headers |-> <<>>]
Unwound == [tag |-> "Panic", version |-> 0, tlv_headers |-> <<>>]
SomeMRPData(v, hs) == [tag |-> "Some", version |-> v, tlv_headers |-> hs]

\* the value of each early return; the comments of the source name the causes
InsufficientVersion == NoneValue
InsufficientHeader == NoneValue
InsufficientValue == NoneValue
MalformedUuid == NoneValue
UnknownTLVTypeTagged ==
    [tag |-> "UnknownTLVType", version |-> 0, tlv_headers |-> <<>>]
UnknownTLVType == NoneValue

FailureExits == {"NoVersion", "NoHeader", "NoValue", "BadUuid", "UnknownType"}
Exits == FailureExits \cup {"Returned", "Panicked"}

----------------------------------------------------------------------------
(* The body of the decode loop, read at the cursor.                        *)

VersionTooShortOff(len) == len < 1
VersionTooShort(len) == len < 2

LoopCond(off, len) == off < len

HeaderTooShortOff(off, len) == off + 1 > len
HeaderTooShort(off, len) == off + 2 > len

ValueTooShortOff(off, length, len) == off + length > len
ValueTooShort(off, length, len) == off + 2 + length > len

tlv_type == At(data, offset)
length == At(data, offset + 1)
tlv_data == Slice(data, offset + 2, offset + 2 + length)

MatchArmEndDefault(t) ==
    CASE t = 2 -> "MRPTest"
      [] t = 1 -> "MRPCommon"
      [] t = 127 -> "MRPOption"
      [] OTHER -> "MRPEnd"
MatchArmNoEnd(t) ==
    CASE t = 2 -> "MRPTest"
      [] t = 1 -> "MRPCommon"
      [] t = 127 -> "MRPOption"
      [] OTHER -> "Unknown"
MatchArm(t) ==
    CASE t = 2 -> "MRPTest"
      [] t = 1 -> "MRPCommon"
      [] t = 127 -> "MRPOption"
      [] t = 0 -> "MRPEnd"
      [] OTHER -> "Unknown"

\* every sub-slice the Test arm takes is inside the body
MRPTestDataOk(d) ==
    /\ SliceOk(d, 0, 2)
    /\ SliceOk(d, 2, 8) /\ parse_mac_address_ok(Slice(d, 2, 8))
    /\ SliceOk(d, 8, 10)
    /\ SliceOk(d, 10, 12)
    /\ SliceOk(d, 12, 14)
    /\ SliceOk(d, 14, 18)

MRPTestData(d) ==
    [variant |-> "MRPTest",
     prio |-> parse_u16(Slice(d, 0, 2)),
     sa |-> parse_mac_address(Slice(d, 2, 8)),
     port_role |-> parse_u16(Slice(d, 8, 10)),
     ring_state |-> parse_u16(Slice(d, 10, 12)),
     transition |-> parse_u16(Slice(d, 12, 14)),
     timestamp |-> parse_u32(Slice(d, 14, 18))]

MRPCommonDataOk(d) == SliceOk(d, 0, 2) /\ SliceOk(d, 2, 18)

MRPCommonData(d) ==
    [variant |-> "MRPCommon",
     sequence_id |-> parse_u16(Slice(d, 0, 2)),
     domain_uuid |-> Uuid_from_slice(Slice(d, 2, 18)).uuid]

MRPOptionDataOk(d) ==
    /\ IndexOk(d, 0) /\ IndexOk(d, 1) /\ IndexOk(d, 2)
    /\ IndexOk(d, 3)
    /\ SliceOk(d, 4, 6)

MRPOptionData(d) ==
    [variant |-> "MRPOption",
     manufacturer_oui |-> <<At(d, 0), At(d, 1), At(d, 2)>>,
     ed1_type |-> At(d, 3),
     ed1_manufacturer_data |-> parse_u16(Slice(d, 4, 6))]

MRPEnd == [variant |-> "MRPEnd"]

\* MRPTLVHeader of the Test, Common and Option arms: length as u8
MRPTLVHeader(t, l, d) == [tlv_type |-> t, length |-> l % 256, data |-> d]

\* MRPTLVHeader of the End arm: length: 0
MRPEndHeaderWire(t, l) == [tlv_type |-> t, length |-> l % 256, data |-> MRPEnd]
MRPEndHeader(t, l) == [tlv_type |-> t, length |-> 0, data |-> MRPEnd]

\* offset += 2 + length
AdvancePastByOne(off, l) == off + 2 + l + 1
Advance(off, l) == off + 2 + l

----------------------------------------------------------------------------
(* The call.                                                               *)

Init ==
    /\ data \in Payloads
    /\ pc = "entry"
    /\ version = 0
    /\ offset = 0
    /\ tlv_headers = <<>>
    /\ ret = Pending

\* leave the call at `exit` with value `value`; the locals keep their values
Leave(exit, value) ==
    /\ pc' = exit
    /\ ret' = value
    /\ UNCHANGED <<data, version, offset, tlv_headers>>

\* tlv_headers.push(tlv_header); offset += 2 + length; back to the loop test
Push(tlv_header) ==
    /\ tlv_headers' = Append(tlv_headers, tlv_header)
    /\ offset' = Advance(offset, length)
    /\ pc' = "loop"
    /\ UNCHANGED <<data, version, ret>>

\* if data.len() < 2 { return None; }
VersionShort ==
    /\ pc = "entry"
    /\ VersionTooShort(Len(data))
    /\ Leave("NoVersion", InsufficientVersion)

\* let version = parse_u16(&data[0..2]); let mut offset = 2;
ReadVersion ==
    /\ pc = "entry"
    /\ ~VersionTooShort(Len(data))
    /\ SliceOk(data, 0, 2)
    /\ version' = parse_u16(Slice(data, 0, 2))
    /\ offset' = 2
    /\ tlv_headers' = <<>>
    /\ pc' = "loop"
    /\ UNCHANGED <<data, ret>>

\* the loop test fails: Some(MRPData { version, tlv_headers })
LoopExit ==
    /\ pc = "loop"
    /\ ~LoopCond(offset, Len(data))
    /\ Leave("Returned", SomeMRPData(version, tlv_headers))

\* inside the loop body, past the check of the TLV header
InBody == pc = "loop" /\ LoopCond(offset, Len(data))

\* if offset + 2 > data.len() { return None; }
HeaderShort ==
    /\ InBody
    /\ HeaderTooShort(offset, Len(data))
    /\ Leave("NoHeader", InsufficientHeader)

\* data[offset] and data[offset + 1] are in bounds
HeaderRead == IndexOk(data, offset) /\ IndexOk(data, offset + 1)

\* if offset + 2 + length > data.len() { return None; }
ValueShort ==
    /\ InBody
    /\ ~HeaderTooShort(offset, Len(data))
    /\ HeaderRead
    /\ ValueTooShort(offset, length, Len(data))
    /\ Leave("NoValue", InsufficientValue)

\* the match on tlv_type is reached with tlv_data sliced
Decoding ==
    /\ InBody
    /\ ~HeaderTooShort(offset, Len(data))
    /\ HeaderRead
    /\ ~ValueTooShort(offset, length, Len(data))
    /\ SliceOk(data, offset + 2, offset + 2 + length)

\* the arm taken indexes its body out of bounds
ArmFaults ==
    \/ MatchArm(tlv_type) = "MRPTest" /\ ~MRPTestDataOk(tlv_data)
    \/ MatchArm(tlv_type) = "MRPCommon" /\ ~MRPCommonDataOk(tlv_data)
    \/ MatchArm(tlv_type) = "MRPOption" /\ ~MRPOptionDataOk(tlv_data)

\* 0x02 => MRPTLVHeader { .. MRPTest(..) }
ParseTest ==
    /\ Decoding
    /\ MatchArm(tlv_type) = "MRPTest"
    /\ MRPTestDataOk(tlv_data)
    /\ Push(MRPTLVHeader(tlv_type, length, MRPTestData(tlv_data)))

\* 0x01 => MRPTLVHeader { .. MRPCommon(..) }, Uuid::from_slice(..).ok()?
ParseCommon ==
    /\ Decoding
    /\ MatchArm(tlv_type) = "MRPCommon"
    /\ MRPCommonDataOk(tlv_data)
    /\ IF Uuid_from_slice(Slice(tlv_data, 2, 18)).ok
          THEN Push(MRPTLVHeader(tlv_type, length, MRPCommonData(tlv_data)))
          ELSE Leave("BadUuid", MalformedUuid)

\* 0x7f => MRPTLVHeader { .. MRPOption(..) }
ParseOption ==
    /\ Decoding
    /\ MatchArm(tlv_type) = "MRPOption"
    /\ MRPOptionDataOk(tlv_data)
    /\ Push(MRPTLVHeader(tlv_type, length, MRPOptionData(tlv_data)))

\* 0x00 => MRPTLVHeader { tlv_type, length: 0, data: MRPEnd }
ParseEnd ==
    /\ Decoding
    /\ MatchArm(tlv_type) = "MRPEnd"
    /\ Push(MRPEndHeader(tlv_type, length))

\* _ => return None
UnknownType ==
    /\ Decoding
    /\ MatchArm(tlv_type) = "Unknown"
    /\ Leave("UnknownType", UnknownTLVType)

\* a bounds check of an index or a range fails: the call panics and unwinds
Fault ==
    /\ \/ pc = "entry" /\ ~VersionTooShort(Len(data)) /\ ~SliceOk(data, 0, 2)
       \/ /\ InBody
          /\ ~HeaderTooShort(offset, Len(data))
          /\ \/ ~HeaderRead
             \/ /\ ~ValueTooShort(offset, length, Len(data))
                /\ \/ ~SliceOk(data, offset + 2, offset + 2 + length)
                   \/ ArmFaults
    /\ Leave("Panicked", Unwound)

Next ==
    \/ VersionShort
    \/ ReadVersion
    \/ LoopExit
    \/ HeaderShort
    \/ ValueShort
    \/ ParseTest
    \/ ParseCommon
    \/ ParseOption
    \/ ParseEnd
    \/ UnknownType
    \/ Fault

Spec == Init /\ [][Next]_vars

\* the call is a sequential function: it runs while it has a step to take
FairSpec == Spec /\ WF_vars(Next)

TypeOK ==
    /\ pc \in {"entry", "loop"} \cup Exits
    /\ offset \in 0..(2 + MaxRecords * 257)
    /\ ret.tag \in {"Pending", "None", "Some", "Panic"}

----------------------------------------------------------------------------
(* The wire format, read independently of the decoder: the TLVs that are   *)
(* completely present, walked from byte 2.                                 *)

RECURSIVE WireTLVs(_, _)
WireTLVs(d, off) ==
    IF off + 2 <= Len(d) /\ off + 2 + d[off + 2] <= Len(d)
        THEN <<[off |-> off, type |-> d[off + 1], len |-> d[off + 2]]>>
                 \o WireTLVs(d, off + 2 + d[off + 2])
        ELSE <<>>

Wire == IF Len(data) >= 2 THEN WireTLVs(data, 2) ELSE <<>>

\* the offset just past the first n complete TLVs
WireOffset(n) == IF n = 0 THEN 2 ELSE Wire[n].off + 2 + Wire[n].len

RECURSIVE WireSum(_)
WireSum(n) == IF n = 0 THEN 0 ELSE WireSum(n - 1) + 2 + Wire[n].len

\* the big-endian value of the bytes [a, b) of the body of the TLV at off
RECURSIVE BigEndian(_, _, _)
BigEndian(off, a, b) ==
    IF a >= b THEN 0
    ELSE BigEndian(off, a, b - 1) * 256 + data[off + 2 + b]

\* the bytes [a, b) of the body of the TLV at off
Bytes(off, a, b) == [j \in 1..(b - a) |-> data[off + 2 + a + j]]

\* the fixed layout of the kind, in bytes
Layout(type) == IF type \in {1, 2} THEN 18 ELSE IF type = 127 THEN 6 ELSE 0

\* a version followed by complete records of known kinds with full layouts
WellFormed ==
    /\ Len(data) >= 2
    /\ WireOffset(Len(Wire)) = Len(data)
    /\ \A i \in 1..Len(Wire) :
          Wire[i].type \in {0, 1, 2, 127} /\ Wire[i].len >= Layout(Wire[i].type)

\* record r holds the fields of the wire TLV w
FieldsMatch(r, w) ==
    /\ r.tlv_type = w.type
    /\ w.type = 2 =>
          /\ r.data.variant = "MRPTest"
          /\ r.data.prio = BigEndian(w.off, 0, 2)
          /\ r.data.sa = Bytes(w.off, 2, 8)
          /\ r.data.port_role = BigEndian(w.off, 8, 10)
          /\ r.data.ring_state = BigEndian(w.off, 10, 12)
          /\ r.data.transition = BigEndian(w.off, 12, 14)
          /\ r.data.timestamp =
                 <<BigEndian(w.off, 14, 16), BigEndian(w.off, 16, 18)>>
    /\ w.type = 1 =>
          /\ r.data.variant = "MRPCommon"
          /\ r.data.sequence_id = BigEndian(w.off, 0, 2)
          /\ r.data.domain_uuid = Bytes(w.off, 2, 18)
    /\ w.type = 127 =>
          /\ r.data.variant = "MRPOption"
          /\ r.data.manufacturer_oui = Bytes(w.off, 0, 3)
          /\ r.data.ed1_type = BigEndian(w.off, 3, 4)
          /\ r.data.ed1_manufacturer_data = BigEndian(w.off, 4, 6)
    /\ w.type = 0 => r.data.variant = "MRPEnd"

----------------------------------------------------------------------------
(* Claims *)

\* C1: on a payload made of a version and complete records of kind 0x02 or
\* 0x01 with length >= 18, 0x7F with length >= 6 or 0x00, the call returns
\* Some, with the big-endian version, one record per wire TLV in wire order,
\* and every field the big-endian value at its fixed offset of the body.
C1_WellFormedDecoded ==
    (pc \in Exits /\ WellFormed) =>
        /\ pc = "Returned"
        /\ ret.tag = "Some"
        /\ ret.version = data[1] * 256 + data[2]
        /\ Len(ret.tlv_headers) = Len(Wire)
        /\ \A i \in 1..Len(Wire) : FieldsMatch(ret.tlv_headers[i], Wire[i])

\* C1 witness: the payload of test_parse_mrp_data is decoded
C1_Witness ==
    /\ pc = "Returned"
    /\ data = TestPayload
    /\ Len(ret.tlv_headers) = 4
    /\ ret.tlv_headers[1].data.prio = 40960
    /\ ret.tlv_headers[1].data.timestamp = <<6650, 16340>>
    /\ ret.tlv_headers[2].data.sequence_id = 1406
    /\ ret.tlv_headers[3].data.manufacturer_oui = <<8, 0, 6>>
    /\ ret.tlv_headers[4].data.variant = "MRPEnd"

\* the header of a TLV is present at the cursor of the loop
HeaderAtCursor == offset >= 2 /\ offset + 2 <= Len(data)

\* bytes of the payload after the header at the cursor
AfterHeader == Len(data) - (offset + 2)

\* C2: when the length declared by the header at the cursor exceeds the bytes
\* that remain after the header, the iteration returns None and reads nothing
\* out of bounds, whatever the kind byte.
C2_DeclaredLengthTooLong ==
    [][(pc = "loop" /\ HeaderAtCursor /\ data[offset + 2] > AfterHeader)
          => (pc' = "NoValue" /\ ret' = NoneValue)]_vars

\* C2 witness: an End header declaring more than remains, after a decoded
\* record, has made the call return None
C2_Witness ==
    /\ pc = "NoValue"
    /\ ret = NoneValue
    /\ Len(tlv_headers) >= 1
    /\ HeaderAtCursor
    /\ data[offset + 1] = 0
    /\ data[offset + 2] > AfterHeader

\* a record at the cursor whose body is fully present and shorter than the
\* fixed layout of its kind
ShortLayoutAtCursor ==
    /\ HeaderAtCursor
    /\ data[offset + 2] <= AfterHeader
    /\ data[offset + 1] \in {1, 2, 127}
    /\ data[offset + 2] < Layout(data[offset + 1])

\* C3: a record whose declared length is smaller than the layout of its kind
\* and whose body is fully present makes the call end with a returned
\* failure value, never with a fault.
C3_ShortLayoutFailsCleanly ==
    (pc \in Exits /\ ShortLayoutAtCursor) => (pc \in FailureExits /\ ret = NoneValue)

\* C4: a record of unknown type whose body fits makes the call return None:
\* no document and none of the records decoded before it.
C4_UnknownTypeFailsWhole ==
    [][(/\ pc = "loop"
        /\ HeaderAtCursor
        /\ data[offset + 2] <= AfterHeader
        /\ data[offset + 1] \notin {0, 1, 2, 127})
          => (pc' = "UnknownType" /\ ret' = NoneValue)]_vars

\* C4 witness: an unknown type after a decoded record has ended the call
C4_Witness ==
    /\ pc = "UnknownType"
    /\ ret = NoneValue
    /\ Len(tlv_headers) >= 1
    /\ data[offset + 1] = 5

\* C5: the call returns None when the payload has fewer than 2 bytes, and when
\* exactly one byte remains at the cursor of the loop.
C5_IncompleteHeaderFails ==
    [][(\/ pc = "entry" /\ Len(data) < 2
        \/ pc = "loop" /\ Len(data) - offset = 1)
          => (pc' \in {"NoVersion", "NoHeader"} /\ ret' = NoneValue)]_vars

\* C5 witness: one byte remained after a decoded record and the call failed
C5_Witness ==
    /\ pc = "NoHeader"
    /\ ret = NoneValue
    /\ Len(tlv_headers) >= 1
    /\ Len(data) - offset = 1

\* the stored length record r must have for the wire TLV w
StoredLengthMatches(r, w) ==
    /\ r.tlv_type = w.type
    /\ r.length = IF w.type = 0 THEN 0 ELSE w.len

\* C6: every End record holds length 0 whatever its wire length byte, every
\* other record holds its wire length byte, and the cursor passes each
\* record, End records too, by 2 + its wire length, so that the records are
\* the wire TLVs and the body of an End record is not read as records.
C6_StoredLengths ==
    /\ pc = "loop" =>
          /\ Len(tlv_headers) <= Len(Wire)
          /\ offset = WireOffset(Len(tlv_headers))
          /\ \A i \in 1..Len(tlv_headers) :
                StoredLengthMatches(tlv_headers[i], Wire[i])
    /\ pc = "Returned" =>
          /\ Len(ret.tlv_headers) <= Len(Wire)
          /\ \A i \in 1..Len(ret.tlv_headers) :
                StoredLengthMatches(ret.tlv_headers[i], Wire[i])

\* C6 witness: a document is returned that holds an End record whose wire
\* length was not 0, followed by another record
C6_Witness ==
    /\ pc = "Returned"
    /\ \E i \in 1..Len(ret.tlv_headers) :
          /\ ret.tlv_headers[i].tlv_type = 0
          /\ Wire[i].len > 0
          /\ i < Len(ret.tlv_headers)

C8_CursorExact ==
    /\ pc = "loop" => (2 <= offset /\ offset <= Len(data))
    /\ pc = "Returned" =>
          /\ offset = Len(data)
          /\ Len(ret.tlv_headers) = Len(Wire)
          /\ 2 + WireSum(Len(ret.tlv_headers)) = Len(data)

\* C8 witness: a document of records with bodies is returned
C8_Witness ==
    /\ pc = "Returned"
    /\ Len(ret.tlv_headers) >= 2
    /\ WireSum(Len(ret.tlv_headers)) > 2 * Len(ret.tlv_headers)

\* C9: an End record does not stop the loop: with bytes after it the loop goes
\* on at the byte after its body, nothing is returned yet, and a failure
\* later on fails the whole call.
C9_EndDoesNotStop ==
    /\ [][(/\ pc = "loop"
           /\ HeaderAtCursor
           /\ data[offset + 1] = 0
           /\ data[offset + 2] < AfterHeader)
             => (/\ pc' = "loop"
                 /\ offset' = offset + 2 + data[offset + 2]
                 /\ ret' = Pending)]_vars
    /\ []((pc \in FailureExits
            /\ \E i \in 1..Len(tlv_headers) : tlv_headers[i].tlv_type = 0)
             => ret = NoneValue)

\* C9 witness: a returned document holds an End record followed by a record
\* of another kind
C9_Witness ==
    /\ pc = "Returned"
    /\ \E i \in 1..Len(ret.tlv_headers) :
          /\ ret.tlv_headers[i].tlv_type = 0
          /\ i < Len(ret.tlv_headers)
          /\ ret.tlv_headers[i + 1].tlv_type # 0

\* C10: every iteration of the loop either returns a failure or moves the
\* cursor forward by at least 2, and never more records are held than
\* (payload length - 2) / 2.
C10_IterationFailsOrAdvances ==
    [][(pc = "loop" /\ offset < Len(data))
          => (\/ pc' \in FailureExits /\ ret' = NoneValue
              \/ /\ pc' = "loop"
                 /\ offset' >= offset + 2
                 /\ 2 * Len(tlv_headers') <= Len(data) - 2)]_vars

\* the call ends on every payload
Terminates == <>(pc \in Exits)

\* never more records than (payload length - 2) / 2
RecordsBounded == 2 * Len(tlv_headers) <= IF Len(data) >= 2 THEN Len(data) - 2 ELSE 0

====
